---- MODULE Spec2Model ----
(***************************************************************************)
(* The FSRS scheduler of chess_client: FSRSMemoryService.update_memory,    *)
(* PuzzleAttempt.determine_rating, and the handlers that drive them        *)
(* (FSRSPuzzleAttemptView.post, FSRSDuePuzzlesView.get, ...).              *)
(*                                                                         *)
(* Numbers.  The code computes in floats and datetimes.  The model uses    *)
(* fixed point:                                                            *)
(*   - times and durations in 1/DayTicks of a day (milli-days);            *)
(*   - stability in milli-days, multipliers and retrievability in 1/1000;  *)
(*   - difficulty in 1/100.                                                *)
(* Products are rounded down.  A retrievability is 0 only where the float  *)
(* is 0.0 (math.exp underflows); a positive float below 0.001 is 1.        *)
(***************************************************************************)
EXTENDS Integers, Sequences, FiniteSets, TLC

VARIABLES
    now,        \* timezone.now(), in milli-days
    memory,     \* chess_client_fsrs_memory: (player, puzzle) -> row
    attempts,   \* chess_client_puzzle_attempt: (player, puzzle) -> Max(attempt_number)
    progress,   \* UserDailyProgress: (player, date) -> row
    req,        \* request.data of the handler that ran last
    resp,       \* the Response it returned
    txn         \* the FSRSPuzzleAttemptView.post calls in flight: locals and position

vars == <<now, memory, attempts, progress, req, resp, txn>>
store == <<memory, attempts, progress>>

----------------------------------------------------------------------------
(* Bounds of the model *)

MaxNow == 1000         \* the clock stops here
MaxSubmits == 3        \* attempt rows over all (player, puzzle) pairs

Players == {"p1", "p2"}
Puzzles == {"z1", "z2"}
Pairs == Players \X Puzzles
TickSteps == {400}

----------------------------------------------------------------------------
(* Units and program constants *)

DayTicks == 1000                \* one day, in clock ticks
NoDate == 0 - 1                 \* a null DateTimeField
NoRating == 0 - 1               \* request.data.get('rating') is None

DefaultDifficulty == 200        \* 2.0
DefaultStability == 500         \* 0.5
MinDifficulty == 100            \* 1.0
MaxDifficulty == 300            \* 3.0
TriesPenalty == 10              \* 0.1
HintPenalty == 20               \* 0.2
MaxPenalisedTries == 3
MinSpacingStability == 100      \* 0.1
MaxSpacingMultiplier == 2000    \* 2.0
LapseMultiplier == 200          \* stability_multiplier[1] = 0.2
NegLnRetention == 1054          \* -ln(0.9) = 0.1054, in 1/10000
DesiredRetention == 900         \* desired_retention = 0.9

Min(a, b) == IF a <= b THEN a ELSE b
Max(a, b) == IF a >= b THEN a ELSE b

(* FSRS_PARAMS['initial_stability'].get(rating, 1.0) *)
initial_stability(rating) ==
    CASE rating = 1 -> 500
      [] rating = 2 -> 1200
      [] rating = 3 -> 3000
      [] rating = 4 -> 7000
      [] OTHER -> 1000

(* FSRS_PARAMS['stability_multiplier'].get(rating, 1.5) *)
stability_multiplier(rating) ==
    CASE rating = 1 -> LapseMultiplier
      [] rating = 2 -> 1100
      [] rating = 3 -> 1500
      [] rating = 4 -> 2000
      [] OTHER -> 1500

(* FSRS_PARAMS['difficulty_adjustment'].get(rating, 0) *)
difficulty_adjustment(rating) ==
    CASE rating = 1 -> 10
      [] rating = 2 -> 5
      [] rating = 3 -> 0 - 5
      [] rating = 4 -> 0 - 10
      [] OTHER -> 0

----------------------------------------------------------------------------
(* math.sqrt and math.exp in fixed point *)

RECURSIVE SqrtSearch(_, _, _)
SqrtSearch(n, lo, hi) ==
    IF lo >= hi THEN lo
    ELSE LET mid == (lo + hi + 1) \div 2
         IN IF mid * mid <= n THEN SqrtSearch(n, mid, hi)
                              ELSE SqrtSearch(n, lo, mid - 1)

(* floor(sqrt(n)) for 0 <= n < 4000 * 1000 *)
ISqrt(n) == SqrtSearch(n, 0, 2000)

(* 1000 * e^-k for whole k, rounded *)
ExpNegWhole(k) ==
    CASE k = 0 -> 1000
      [] k = 1 -> 368
      [] k = 2 -> 135
      [] k = 3 -> 50
      [] k = 4 -> 18
      [] k = 5 -> 7
      [] k = 6 -> 2
      [] OTHER -> 0

(* 1000 * e^-(f/1000) for 0 <= f < 1000: the series to the fifth power *)
ExpNegFrac(f) ==
    LET t2 == (f * f) \div 2000
        t3 == (t2 * f) \div 3000
        t4 == (t3 * f) \div 4000
        t5 == (t4 * f) \div 5000
    IN 1000 - f + t2 - t3 + t4 - t5

(* math.exp(-x), x >= 0 and the result both in 1/1000 *)
ExpNeg(x) == (ExpNegWhole(x \div 1000) * ExpNegFrac(x % 1000)) \div 1000

(* math.exp(-x) is 0.0 for x above 745.133: the result is below the least *)
(* positive double                                                        *)
ExpUnderflow == 745133
exp_underflows(x) == x > ExpUnderflow

----------------------------------------------------------------------------
(* Mutant: the hint and the tries are looked at before solved *)
determine_rating_HintFirst(solved, tries_count, hint_used) ==
    IF tries_count > 2 \/ hint_used THEN 2
    ELSE IF ~solved THEN 1
    ELSE IF tries_count > 0 THEN 3
    ELSE 4

(* PuzzleAttempt.determine_rating *)
determine_rating(solved, tries_count, hint_used) ==
    IF ~solved THEN 1
    ELSE IF tries_count > 2 \/ hint_used THEN 2
    ELSE IF tries_count > 0 THEN 3
    ELSE 4

(* FSRSMemoryService.calculate_retrievability: math.exp(-elapsed_days / stability). *)
(* The division raises ZeroDivisionError when stability is 0.0.                    *)
retrievability_raises(stability) == stability = 0

(* Mutant: the elapsed time is multiplied by the stability *)
calculate_retrievability_Product(stability, elapsed_days) ==
    LET x == (elapsed_days * stability) \div 1000
    IN IF exp_underflows(x) THEN 0 ELSE Max(1, ExpNeg(x))

calculate_retrievability(stability, elapsed_days) ==
    LET x == (elapsed_days * 1000) \div stability
    IN IF exp_underflows(x) THEN 0 ELSE Max(1, ExpNeg(x))

(* -math.log(r) in 1/10000, for the retentions r (in 1/1000) that are used *)
neg_log(r) ==
    CASE r = 500 -> 6931
      [] r = 700 -> 3567
      [] r = DesiredRetention -> NegLnRetention
      [] r = 990 -> 101

(* Mutant: the interval is stability * (1 - desired_retention) *)
next_interval_Linear(stability, desired_retention) ==
    (stability * (1000 - desired_retention)) \div 1000

(* calculate_next_interval(stability, desired_retention): *)
(* -stability * math.log(desired_retention)               *)
next_interval(stability, desired_retention) ==
    (stability * neg_log(desired_retention)) \div 10000

(* calculate_next_interval with the desired_retention of FSRS_PARAMS *)
calculate_next_interval(stability) == next_interval(stability, DesiredRetention)

(* Mutant: the spacing multiplier is not capped at 2.0 *)
spacing_multiplier_Uncapped(stability, elapsed_days) ==
    LET ratio == (elapsed_days * 1000) \div Max(stability, MinSpacingStability)
    IN SqrtSearch(ratio * 1000, 0, 40000)

(* min(2.0, math.sqrt(elapsed_days / max(memory.stability, 0.1))) *)
spacing_multiplier(stability, elapsed_days) ==
    LET ratio == (elapsed_days * 1000) \div Max(stability, MinSpacingStability)
    IN IF ratio >= 4000 THEN MaxSpacingMultiplier
       ELSE Min(MaxSpacingMultiplier, ISqrt(ratio * 1000))

(* Mutant: the upper clamp is missing *)
clamp_difficulty_NoUpper(d) == Max(MinDifficulty, d)

(* max(1.0, min(3.0, memory.difficulty)) *)
clamp_difficulty(d) == Max(MinDifficulty, Min(MaxDifficulty, d))

(* Mutant: every try is penalised, without the cap at three *)
new_difficulty_UncappedTries(difficulty, rating, tries_count, hint_used) ==
    clamp_difficulty(difficulty + difficulty_adjustment(rating)
                     + (IF tries_count > 0 THEN TriesPenalty * tries_count ELSE 0)
                     + (IF hint_used THEN HintPenalty ELSE 0))

(* The difficulty lines of update_memory *)
new_difficulty(difficulty, rating, tries_count, hint_used) ==
    LET d1 == difficulty + difficulty_adjustment(rating)
        d2 == IF tries_count > 0
              THEN d1 + TriesPenalty * Min(tries_count, MaxPenalisedTries)
              ELSE d1
        d3 == IF hint_used THEN d2 + HintPenalty ELSE d2
    IN clamp_difficulty(d3)

(* Mutant: the first review multiplies the default stability instead of *)
(* taking the initial stability of the rating                           *)
new_stability_NoInitial(m, t, rating) ==
    IF m.last_review_date = NoDate \/ rating = 1
    THEN (m.stability * stability_multiplier(rating)) \div 1000
    ELSE (m.stability * ((stability_multiplier(rating)
             * spacing_multiplier(m.stability, t - m.last_review_date)) \div 1000)) \div 1000

(* Mutant: a lapse gets the spacing multiplier like any other rating *)
new_stability_SpacingOnLapse(m, t, rating) ==
    IF m.last_review_date = NoDate
    THEN initial_stability(rating)
    ELSE (m.stability * ((stability_multiplier(rating)
             * spacing_multiplier(m.stability, t - m.last_review_date)) \div 1000)) \div 1000

(* Mutant: harder items gain less stability, as in the full FSRS model *)
new_stability_DifficultyScaled(m, t, rating) ==
    LET base == IF m.last_review_date = NoDate
                THEN initial_stability(rating)
                ELSE IF rating = 1
                     THEN (m.stability * stability_multiplier(1)) \div 1000
                     ELSE (m.stability * ((stability_multiplier(rating)
                              * spacing_multiplier(m.stability, t - m.last_review_date))
                                 \div 1000)) \div 1000
    IN (base * (2 * DefaultDifficulty - m.difficulty)) \div DefaultDifficulty

(* The stability lines of update_memory *)
new_stability(m, t, rating) ==
    IF m.last_review_date = NoDate
    THEN initial_stability(rating)
    ELSE IF rating = 1
         THEN (m.stability * stability_multiplier(1)) \div 1000
         ELSE LET sm == stability_multiplier(rating)
                  sp == spacing_multiplier(m.stability, t - m.last_review_date)
              IN (m.stability * ((sm * sp) \div 1000)) \div 1000

(* update_memory raises before it saves: the retrievability of a reviewed row *)
(* whose stability is 0.0                                                     *)
update_memory_raises(m) ==
    m.last_review_date # NoDate /\ retrievability_raises(m.stability)

(* Mutant: the interval is computed from the stability before the update *)
update_memory_OldStabilityInterval(m, t, rating, tries_count, hint_used) ==
    [exists |-> TRUE,
     difficulty |-> new_difficulty(m.difficulty, rating, tries_count, hint_used),
     stability |-> new_stability(m, t, rating),
     last_review_date |-> t,
     next_review_date |-> t + calculate_next_interval(m.stability)]

(* FSRSMemoryService.update_memory: the row it saves *)
update_memory(m, t, rating, tries_count, hint_used) ==
    LET s == new_stability(m, t, rating)
    IN [exists |-> TRUE,
        difficulty |-> new_difficulty(m.difficulty, rating, tries_count, hint_used),
        stability |-> s,
        last_review_date |-> t,
        next_review_date |-> t + calculate_next_interval(s)]

----------------------------------------------------------------------------
(* Rows *)

NoMemory ==
    [exists |-> FALSE, difficulty |-> 0, stability |-> 0,
     last_review_date |-> NoDate, next_review_date |-> NoDate]

(* FSRSMemory(difficulty=2.0, stability=0.5, ...) *)
DefaultMemory ==
    [exists |-> TRUE, difficulty |-> DefaultDifficulty, stability |-> DefaultStability,
     last_review_date |-> NoDate, next_review_date |-> NoDate]

NoProgress == [exists |-> FALSE, new_puzzles_seen |-> 0, reviews_done |-> 0]

Days == 0 .. 4
Today == now \div DayTicks

NoRequest ==
    [view |-> "none", player |-> "p1", puzzle |-> "z1", tries_count |-> 0,
     hint_used |-> FALSE, solved |-> FALSE, rating |-> NoRating,
     desired_retention |-> DesiredRetention]

(* The body of a DailyPuzzlesView response: the limits and counters it echoes, *)
(* puzzles_count and the page of puzzles                                      *)
NoDaily ==
    [new_limit |-> 0, total_limit |-> 0, per_page |-> 0, new_puzzles_seen |-> 0,
     reviews_done |-> 0, puzzles_count |-> 0, puzzles |-> <<>>]

NoResponse ==
    [status |-> 0, rating |-> NoRating, difficulty |-> 0, stability |-> 0,
     next_review_date |-> NoDate, retrievability |-> 0, due_puzzles |-> <<>>,
     daily |-> NoDaily]

Txns == {"t1", "t2"}

(* A call that has not started *)
IdleTxn ==
    [pc |-> "idle", player |-> "p1", puzzle |-> "z1", tries_count |-> 0,
     hint_used |-> FALSE, solved |-> FALSE, rating |-> NoRating,
     next_attempt |-> 0, day |-> 0, at |-> NoDate, status |-> 0,
     w_attempt |-> FALSE,
     l_progress |-> NoProgress, w_progress |-> NoProgress,
     r_memory |-> NoMemory, l_memory |-> NoMemory, w_memory |-> NoMemory]

Init ==
    /\ txn = [t \in Txns |-> IdleTxn]
    /\ now = 0
    /\ memory = [pz \in Pairs |-> NoMemory]
    /\ attempts = [pz \in Pairs |-> 0]
    /\ progress = [pd \in Players \X Days |-> NoProgress]
    /\ req = NoRequest
    /\ resp = NoResponse

(* The clock moves between requests *)
Tick ==
    /\ \E d \in TickSteps : now + d <= MaxNow /\ now' = now + d
    /\ UNCHANGED <<store, req, resp, txn>>

----------------------------------------------------------------------------
(* Helpers of the handlers *)

RECURSIVE SumOver(_, _)
SumOver(f, S) ==
    IF S = {} THEN 0
    ELSE LET x == CHOOSE y \in S : TRUE IN f[x] + SumOver(f, S \ {x})

TotalAttempts == SumOver(attempts, Pairs)

(* Player.objects.get(username=...) raises DoesNotExist for this one *)
UnknownPlayer == "ghost"

Request(view, p, z, tries_count, hint_used, solved, rating) ==
    [view |-> view, player |-> p, puzzle |-> z, tries_count |-> tries_count,
     hint_used |-> hint_used, solved |-> solved, rating |-> rating,
     desired_retention |-> DesiredRetention]

ErrorResponse(status) == [NoResponse EXCEPT !.status = status]

(* attempt.save(): tries_count is a PositiveIntegerField, the insert of a *)
(* negative value fails its CHECK and raises IntegrityError               *)
attempt_save_raises(tries_count) == tries_count < 0

(* UserDailyProgress.objects.get_or_create(player, date), then the counter *)
(* of the branch taken, then progress.save()                               *)
bump_progress(row, is_first_attempt) ==
    IF is_first_attempt
    THEN [exists |-> TRUE, new_puzzles_seen |-> row.new_puzzles_seen + 1,
          reviews_done |-> row.reviews_done]
    ELSE [exists |-> TRUE, new_puzzles_seen |-> row.new_puzzles_seen,
          reviews_done |-> row.reviews_done + 1]

(* FSRSMemory.calculate_retrievability at time t *)
memory_retrievability_raises(m) ==
    m.last_review_date # NoDate /\ retrievability_raises(m.stability)

memory_retrievability(m, t) ==
    IF m.last_review_date = NoDate THEN 1000
    ELSE calculate_retrievability(m.stability, t - m.last_review_date)

(* The memory row FSRSPuzzleAttemptView.post leaves behind, given the row it *)
(* found or created: update_memory's, or the old one when it raised          *)
memory_after_post(m0, t, rating, tries_count, hint_used) ==
    IF update_memory_raises(m0) THEN m0
    ELSE update_memory(m0, t, rating, tries_count, hint_used)

(* The 201 response of FSRSPuzzleAttemptView.post; the except branch answers *)
(* with now + 1 day and 1.0 when update_memory or the retrievability raised  *)
post_response(m0, m1, t, rating) ==
    IF update_memory_raises(m0) \/ memory_retrievability_raises(m1)
    THEN [NoResponse EXCEPT !.status = 201, !.rating = rating,
                            !.difficulty = m1.difficulty, !.stability = m1.stability,
                            !.next_review_date = t + DayTicks, !.retrievability = 1000]
    ELSE [NoResponse EXCEPT !.status = 201, !.rating = rating,
                            !.difficulty = m1.difficulty, !.stability = m1.stability,
                            !.next_review_date = m1.next_review_date,
                            !.retrievability = memory_retrievability(m1, t)]

(* FSRSPuzzleAttemptView.post *)
SubmitAttempt(p, z, tries_count, hint_used, solved, rating) ==
    /\ TotalAttempts < MaxSubmits
    /\ req' = Request("fsrs_attempt", p, z, tries_count, hint_used, solved, rating)
    /\ UNCHANGED <<now, txn>>
    /\ IF p = UnknownPlayer
       THEN /\ resp' = ErrorResponse(404)
            /\ UNCHANGED store
       ELSE IF attempt_save_raises(tries_count)
       THEN /\ resp' = ErrorResponse(500)
            /\ UNCHANGED store
       ELSE LET pz == <<p, z>>
                next_attempt == attempts[pz] + 1
                r == IF rating = NoRating
                     THEN determine_rating(solved, tries_count, hint_used)
                     ELSE rating
                m0 == IF memory[pz].exists THEN memory[pz] ELSE DefaultMemory
                m1 == memory_after_post(m0, now, r, tries_count, hint_used)
            IN /\ attempts' = [attempts EXCEPT ![pz] = next_attempt]
               /\ progress' = [progress EXCEPT ![<<p, Today>>] =
                                   bump_progress(@, next_attempt = 1)]
               /\ memory' = [memory EXCEPT ![pz] = m1]
               /\ resp' = post_response(m0, m1, now, r)

(* FSRSPuzzleAttemptView.post when memory.save() in update_memory raises a    *)
(* DatabaseError: the except branch around update_memory answers 201 with    *)
(* now + 1 day and 1.0 and with the difficulty and stability of the memory   *)
(* object; save() has marked the transaction for rollback, so the attempt    *)
(* and the counter are rolled back when the atomic block is left             *)
SubmitAttemptSaveFails(p, z, tries_count, hint_used, solved, rating) ==
    LET pz == <<p, z>>
        r == IF rating = NoRating
             THEN determine_rating(solved, tries_count, hint_used)
             ELSE rating
        m0 == IF memory[pz].exists THEN memory[pz] ELSE DefaultMemory
        m1 == update_memory(m0, now, r, tries_count, hint_used)
    IN /\ p # UnknownPlayer
       /\ ~attempt_save_raises(tries_count)
       /\ ~update_memory_raises(m0)
       /\ req' = Request("fsrs_attempt", p, z, tries_count, hint_used, solved, rating)
       /\ resp' = [NoResponse EXCEPT !.status = 201, !.rating = r,
                                     !.difficulty = m1.difficulty,
                                     !.stability = m1.stability,
                                     !.next_review_date = now + DayTicks,
                                     !.retrievability = 1000]
       /\ UNCHANGED <<now, store, txn>>

(* PuzzleAttemptView.post: a new attempt row, nothing else *)
CreateAttempt(p, z) ==
    /\ TotalAttempts < MaxSubmits
    /\ req' = Request("attempt", p, z, 0, FALSE, FALSE, NoRating)
    /\ UNCHANGED <<now, txn>>
    /\ IF p = UnknownPlayer
       THEN /\ resp' = ErrorResponse(404)
            /\ UNCHANGED store
       ELSE /\ attempts' = [attempts EXCEPT ![<<p, z>>] = @ + 1]
            /\ resp' = ErrorResponse(201)
            /\ UNCHANGED <<memory, progress>>

----------------------------------------------------------------------------
(* FSRSDuePuzzlesView.get *)

(* The orders in which the unordered queryset may yield the rows *)
ScanOrders ==
    {s \in [1 .. Cardinality(Puzzles) -> Puzzles] :
        \A i, j \in 1 .. Cardinality(Puzzles) : i # j => s[i] # s[j]}

(* Mutant: the date filter is missing *)
is_due_AllRows(m, t) == m.exists

(* if memory.next_review_date and memory.next_review_date <= now *)
is_due(m, t) == m.exists /\ m.next_review_date # NoDate /\ m.next_review_date <= t

due_entry(p, z, t) ==
    LET m == memory[<<p, z>>]
    IN [puzzle_id |-> z, retrievability |-> memory_retrievability(m, t),
        difficulty |-> m.difficulty, stability |-> m.stability,
        last_review_date |-> m.last_review_date]

(* Mutant: highest retrievability first *)
sort_key_Descending(e) == 0 - e.retrievability

(* list.sort(key=...): stable, ascending *)
sort_key(e) == e.retrievability

RECURSIVE insert_sorted(_, _)
insert_sorted(e, sorted) ==
    IF sorted = <<>> THEN <<e>>
    ELSE IF sort_key(sorted[Len(sorted)]) <= sort_key(e) THEN Append(sorted, e)
    ELSE Append(insert_sorted(e, SubSeq(sorted, 1, Len(sorted) - 1)), sorted[Len(sorted)])

RECURSIVE sort_entries(_)
sort_entries(entries) ==
    IF entries = <<>> THEN <<>>
    ELSE insert_sorted(entries[Len(entries)],
                       sort_entries(SubSeq(entries, 1, Len(entries) - 1)))

(* The loop over the rows of the player, in scan order *)
RECURSIVE due_scan(_, _, _)
due_scan(p, order, t) ==
    IF order = <<>> THEN <<>>
    ELSE LET z == Head(order)
             rest == due_scan(p, Tail(order), t)
         IN IF is_due(memory[<<p, z>>], t) THEN <<due_entry(p, z, t)>> \o rest ELSE rest

due_scan_raises(p, t) ==
    \E z \in Puzzles : /\ is_due(memory[<<p, z>>], t)
                       /\ memory_retrievability_raises(memory[<<p, z>>])

DuePuzzles(p) ==
    /\ req' = Request("due_puzzles", p, "z1", 0, FALSE, FALSE, NoRating)
    /\ UNCHANGED <<now, store, txn>>
    /\ IF p = UnknownPlayer THEN resp' = ErrorResponse(404)
       ELSE IF due_scan_raises(p, now) THEN resp' = ErrorResponse(500)
       ELSE \E order \in ScanOrders :
               resp' = [NoResponse EXCEPT !.status = 200,
                            !.due_puzzles = sort_entries(due_scan(p, order, now))]

(* Mutant: the reset also deletes the memory rows of the player *)
ResetDailyProgress_DeletesMemory(p) ==
    /\ req' = Request("reset_progress", p, "z1", 0, FALSE, FALSE, NoRating)
    /\ resp' = ErrorResponse(200)
    /\ progress' = [progress EXCEPT ![<<p, Today>>] = NoProgress]
    /\ memory' = [pz \in Pairs |-> IF pz[1] = p THEN NoMemory ELSE memory[pz]]
    /\ UNCHANGED <<now, txn, attempts>>

(* ResetDailyProgressView.post: delete today's row *)
ResetDailyProgress(p) ==
    /\ req' = Request("reset_progress", p, "z1", 0, FALSE, FALSE, NoRating)
    /\ UNCHANGED <<now, txn>>
    /\ IF p = UnknownPlayer
       THEN /\ resp' = ErrorResponse(404)
            /\ UNCHANGED store
       ELSE /\ progress' = [progress EXCEPT ![<<p, Today>>] = NoProgress]
            /\ resp' = ErrorResponse(200)
            /\ UNCHANGED <<memory, attempts>>

----------------------------------------------------------------------------
(* DailyPuzzlesView.get *)

(* request.query_params: new_limit, total_limit, per_page *)
NewLimitInputs == {0, 1, 2}
TotalLimitInputs == {0, 1, 2, 3}
PerPageInputs == {1, 10}
DefaultPerPage == 10

(* Puzzle.player_username: both puzzles were made from the games of p1 *)
puzzle_player_username(z) == "p1"

(* The orders in which a queryset without order_by, or with order_by('?'), *)
(* may yield the rows of S                                                 *)
QueryOrders(S) ==
    {s \in [1 .. Cardinality(S) -> S] :
        \A i, j \in 1 .. Cardinality(S) : i # j => s[i] # s[j]}

(* seq[:n] *)
Prefix(seq, n) == SubSeq(seq, 1, Min(Len(seq), Max(0, n)))

(* UserDailyProgress.total_puzzles_done *)
total_puzzles_done(row) == row.new_puzzles_seen + row.reviews_done

new_remaining(new_limit, row) == Max(0, new_limit - row.new_puzzles_seen)

(* Mutant: the reviews done are not counted against the total limit *)
total_remaining_NewOnly(total_limit, row) == Max(0, total_limit - row.new_puzzles_seen)

total_remaining(total_limit, row) == Max(0, total_limit - total_puzzles_done(row))

reviews_to_use(due_count, remaining) == Min(due_count, remaining)

(* Mutant: the new puzzles fill the total remaining, reviews or not *)
new_to_use_IgnoresReviews(new_count, remaining, reviews) == Min(new_count, remaining)

new_to_use(new_count, remaining, reviews) == Min(new_count, remaining - reviews)

(* FSRSMemory.objects.filter(player_username=username, next_review_date__lte=now): *)
(* the puzzle ids of the rows                                                      *)
due_puzzle_ids(p, t) == {z \in Puzzles : is_due(memory[<<p, z>>], t)}

(* Puzzle.objects.filter(player_username=username).exclude(id__in=attempted_puzzle_ids) *)
new_puzzles_query(p) ==
    {z \in Puzzles : puzzle_player_username(z) = p /\ attempts[<<p, z>>] = 0}

(* One entry of puzzles_data *)
puzzle_data(z, due) == [id |-> z, is_new |-> z \notin due]

(* combined_puzzles, formatted: the first reviews_to_use of due_puzzles, then *)
(* the first new_to_use of new_puzzles                                        *)
combined_puzzles(due_puzzles, new_puzzles, remaining) ==
    LET r == reviews_to_use(Len(due_puzzles), remaining)
        n == new_to_use(Len(new_puzzles), remaining, r)
        combined == Prefix(due_puzzles, r) \o Prefix(new_puzzles, n)
        due == {due_puzzles[i] : i \in DOMAIN due_puzzles}
    IN [i \in DOMAIN combined |-> puzzle_data(combined[i], due)]

DailyResponse(row, new_limit, total_limit, per_page, puzzles_data) ==
    [NoResponse EXCEPT
        !.status = 200,
        !.daily = [new_limit |-> new_limit, total_limit |-> total_limit,
                   per_page |-> per_page,
                   new_puzzles_seen |-> row.new_puzzles_seen,
                   reviews_done |-> row.reviews_done,
                   puzzles_count |-> Len(puzzles_data),
                   puzzles |-> Prefix(puzzles_data, per_page)]]

DailyPuzzles(p, new_limit, total_limit, per_page) ==
    /\ req' = Request("daily_puzzles", p, "z1", 0, FALSE, FALSE, NoRating)
    /\ UNCHANGED <<now, memory, attempts, txn>>
    /\ IF p = UnknownPlayer
       THEN /\ resp' = ErrorResponse(404)
            /\ UNCHANGED progress
       ELSE LET key == <<p, Today>>
                row == [progress[key] EXCEPT !.exists = TRUE]
                remaining == total_remaining(total_limit, row)
            IN /\ progress' = [progress EXCEPT ![key] = row]
               /\ IF remaining <= 0
                  THEN resp' = DailyResponse(row, new_limit, total_limit, per_page, <<>>)
                  ELSE \E due_puzzles \in QueryOrders(due_puzzle_ids(p, now)),
                          new_order \in QueryOrders(new_puzzles_query(p)) :
                          resp' = DailyResponse(row, new_limit, total_limit, per_page,
                                     combined_puzzles(due_puzzles,
                                         Prefix(new_order, new_remaining(new_limit, row)),
                                         remaining))

(* request.data of FSRSPuzzleAttemptView.post: tries_count, hint_used, solved, rating *)
Outcome(tries_count, hint_used, solved, rating) ==
    [tries_count |-> tries_count, hint_used |-> hint_used, solved |-> solved,
     rating |-> rating]

(* The outcomes submitted in Spec: one per derived rating, an explicit rating *)
(* outside 1..4, and a negative tries_count                                   *)
Outcomes ==
    { Outcome(0, FALSE, FALSE, NoRating),
      Outcome(1, FALSE, TRUE, NoRating),
      Outcome(0, FALSE, TRUE, 5),
      Outcome(0 - 1, FALSE, TRUE, NoRating) }

Submit(p, z, o) == SubmitAttempt(p, z, o.tries_count, o.hint_used, o.solved, o.rating)

Next ==
    \/ Tick
    \/ \E p \in Players, z \in Puzzles, o \in Outcomes : Submit(p, z, o)
    \/ \E p \in Players \cup {UnknownPlayer} : DuePuzzles(p)
    \/ \E z \in Puzzles : Submit(UnknownPlayer, z, Outcome(0, FALSE, TRUE, NoRating))

(* The scheduler: reviews and due-item queries as time passes *)
Spec == Init /\ [][Next]_vars

(* The daily mix as reviews are submitted and time passes *)
DailyOutcomes ==
    { Outcome(0, FALSE, FALSE, NoRating),
      Outcome(1, FALSE, TRUE, NoRating) }

(* The learner whose mix is composed: the owner of the puzzles *)
DailyPlayers == {"p1"}

NextHandlers ==
    \/ Tick
    \/ \E p \in DailyPlayers, z \in Puzzles, o \in DailyOutcomes : Submit(p, z, o)
    \/ \E p \in DailyPlayers, z \in Puzzles : CreateAttempt(p, z)
    \/ \E p \in DailyPlayers : DuePuzzles(p)
    \/ \E p \in DailyPlayers : ResetDailyProgress(p)
    \/ \E p \in DailyPlayers, nl \in NewLimitInputs, tl \in TotalLimitInputs :
          DailyPuzzles(p, nl, tl, DefaultPerPage)

(* The scheduler with the handlers that touch only attempts and daily progress *)
SpecHandlers == Init /\ [][NextHandlers]_vars

SubmitSaveFails(p, z, o) ==
    SubmitAttemptSaveFails(p, z, o.tries_count, o.hint_used, o.solved, o.rating)

NextDaily ==
    \/ Tick
    \/ \E p \in DailyPlayers, z \in Puzzles, o \in DailyOutcomes : Submit(p, z, o)
    \/ \E p \in DailyPlayers \cup {UnknownPlayer}, nl \in NewLimitInputs,
          tl \in TotalLimitInputs, pp \in PerPageInputs : DailyPuzzles(p, nl, tl, pp)

SpecDaily == Init /\ [][NextDaily]_vars

NextFaults ==
    \/ Tick
    \/ \E p \in Players, z \in Puzzles, o \in DailyOutcomes : Submit(p, z, o)
    \/ \E p \in Players, z \in Puzzles, o \in DailyOutcomes : SubmitSaveFails(p, z, o)

(* Reviews, some of which meet a failing memory.save() *)
SpecFaults == Init /\ [][NextFaults]_vars

----------------------------------------------------------------------------
(* One review of one pair, from any memory row and any outcome *)

TriesInputs == {0 - 1, 0, 1, 2, 3, 4}
RatingInputs == {NoRating, 0, 1, 2, 3, 4, 5}
DifficultyInputs == {100, 105, 200, 250, 295, 300}
StabilityInputs == {0, 4, 100, 500, 3000, 28000}
NowInputs == {0, 100, 400, 4000}

AllOutcomes ==
    { Outcome(tr, h, sv, r) : tr \in TriesInputs, h \in BOOLEAN, sv \in BOOLEAN,
                              r \in RatingInputs }

(* A row last reviewed at time 0 *)
ReviewedMemory(difficulty, stability) ==
    [exists |-> TRUE, difficulty |-> difficulty, stability |-> stability,
     last_review_date |-> 0, next_review_date |-> calculate_next_interval(stability)]

MemoryInputs ==
    {NoMemory} \cup
    { ReviewedMemory(d, st) : d \in DifficultyInputs, st \in StabilityInputs }

ThePair == <<"p1", "z1">>

InitUpdate ==
    /\ now \in NowInputs
    /\ \E m \in MemoryInputs :
          /\ memory = [pz \in Pairs |-> IF pz = ThePair THEN m ELSE NoMemory]
          /\ attempts = [pz \in Pairs |-> IF pz = ThePair /\ m.exists THEN 1 ELSE 0]
    /\ progress = [pd \in Players \X Days |-> NoProgress]
    /\ req = NoRequest
    /\ resp = NoResponse
    /\ txn = [t \in Txns |-> IdleTxn]

ReviewOnce ==
    /\ req.view = "none"
    /\ \E o \in AllOutcomes : Submit(ThePair[1], ThePair[2], o)

SpecUpdate == InitUpdate /\ [][ReviewOnce]_vars

----------------------------------------------------------------------------
(* FSRSMemory.calculate_retrievability on any memory object at any time *)

(* memory.calculate_retrievability() on the object of a pair: its row, or the *)
(* object that post builds when there is none                                 *)
CalculateRetrievability(p, z) ==
    LET m == IF memory[<<p, z>>].exists THEN memory[<<p, z>>] ELSE DefaultMemory
    IN /\ req.view = "none"
       /\ req' = Request("retrievability", p, z, 0, FALSE, FALSE, NoRating)
       /\ resp' = IF memory_retrievability_raises(m) THEN ErrorResponse(500)
                  ELSE [NoResponse EXCEPT !.status = 200,
                                          !.retrievability = memory_retrievability(m, now)]
       /\ UNCHANGED <<now, store, txn>>

SpecRetrievability ==
    InitUpdate /\ [][CalculateRetrievability(ThePair[1], ThePair[2])]_vars

(* desired_retention, in 1/1000 *)
RetentionInputs == {500, 700, 900, 990}

(* calculate_next_interval(stability, r) for the object of a pair, and the *)
(* retrievability of that stability after that interval                    *)
CalculateNextInterval(p, z, r) ==
    LET m == IF memory[<<p, z>>].exists THEN memory[<<p, z>>] ELSE DefaultMemory
        interval == next_interval(m.stability, r)
    IN /\ req.view = "none"
       /\ req' = [Request("next_interval", p, z, 0, FALSE, FALSE, NoRating)
                     EXCEPT !.desired_retention = r]
       /\ resp' = IF retrievability_raises(m.stability) THEN ErrorResponse(500)
                  ELSE [NoResponse EXCEPT
                           !.status = 200,
                           !.next_review_date = now + interval,
                           !.retrievability =
                               calculate_retrievability(m.stability, interval)]
       /\ UNCHANGED <<now, store, txn>>

SpecInterval ==
    InitUpdate /\ [][\E r \in RetentionInputs :
                        CalculateNextInterval(ThePair[1], ThePair[2], r)]_vars

----------------------------------------------------------------------------
(* FSRSPuzzleAttemptView.post, statement by statement, for calls that overlap. *)
(* @transaction.atomic: a statement reads the committed rows and the call's    *)
(* own writes; the writes reach the tables at commit; a write of a row or of a *)
(* unique key that another open call has written waits for that call to end.   *)

TxnPlayers == {"p1"}
TxnOutcomes == { Outcome(0, FALSE, FALSE, NoRating), Outcome(1, FALSE, TRUE, NoRating) }

Others(t) == Txns \ {t}
Open(u) == txn[u].pc \notin {"idle", "done"}
PairOf(t) == <<txn[t].player, txn[t].puzzle>>
ProgressKeyOf(t) == <<txn[t].player, txn[t].day>>

(* The call starts: request.data is read *)
Begin(t, p, z, o) ==
    /\ txn[t].pc = "idle"
    /\ txn' = [txn EXCEPT ![t] =
                  [IdleTxn EXCEPT !.pc = "max_attempt", !.player = p, !.puzzle = z,
                                  !.tries_count = o.tries_count, !.hint_used = o.hint_used,
                                  !.solved = o.solved, !.rating = o.rating]]
    /\ UNCHANGED <<now, store, req, resp>>

(* aggregate(Max('attempt_number')), next_attempt, and the rating of the attempt *)
ReadMaxAttempt(t) ==
    /\ txn[t].pc = "max_attempt"
    /\ txn' = [txn EXCEPT ![t].pc = "save_attempt",
                          ![t].next_attempt = attempts[PairOf(t)] + 1,
                          ![t].rating =
                              IF @ = NoRating
                              THEN determine_rating(txn[t].solved, txn[t].tries_count,
                                                    txn[t].hint_used)
                              ELSE @]
    /\ UNCHANGED <<now, store, req, resp>>

(* Mutant: the tables have no unique index *)
unique_index_None(held, exists) == "free"

(* The insert of a row under a unique index: its key is "held" by an open call *)
(* that inserted it (the insert waits), "exists" in the table (IntegrityError), *)
(* or "free"                                                                    *)
unique_index(held, exists) ==
    IF held THEN "held" ELSE IF exists THEN "exists" ELSE "free"

(* Mutant: the table has no unique key on the attempt number *)
attempt_key_NotUnique(t) == "free"

(* unique_together = ('puzzle', 'player', 'attempt_number'): the key of the row *)
(* the call inserts is "held" by an open call that inserted it, "exists" in the *)
(* table, or "free"                                                             *)
attempt_key(t) ==
    unique_index(\E u \in Others(t) : /\ Open(u) /\ txn[u].w_attempt
                                      /\ PairOf(u) = PairOf(t)
                                      /\ txn[u].next_attempt = txn[t].next_attempt,
                 attempts[PairOf(t)] >= txn[t].next_attempt)

(* The exception reaches the outer except: 500, and the transaction is rolled back *)
RolledBack(r) ==
    [r EXCEPT !.pc = "done", !.status = 500, !.w_attempt = FALSE,
              !.w_progress = NoProgress, !.w_memory = NoMemory]

(* attempt.save() *)
SaveAttempt(t) ==
    /\ txn[t].pc = "save_attempt"
    /\ attempt_key(t) # "held"
    /\ IF attempt_save_raises(txn[t].tries_count) \/ attempt_key(t) = "exists"
       THEN txn' = [txn EXCEPT ![t] = RolledBack(@)]
       ELSE txn' = [txn EXCEPT ![t].pc = "get_progress", ![t].w_attempt = TRUE]
    /\ UNCHANGED <<now, store, req, resp>>

progress_row_held(t, key) ==
    \E u \in Others(t) : Open(u) /\ txn[u].w_progress.exists /\ ProgressKeyOf(u) = key

(* UserDailyProgress.objects.get_or_create(player=player, date=today) *)
GetProgress(t) ==
    /\ txn[t].pc = "get_progress"
    /\ LET key == <<txn[t].player, Today>>
       IN IF progress[key].exists
          THEN txn' = [txn EXCEPT ![t].pc = "save_progress", ![t].day = Today,
                                  ![t].l_progress = progress[key]]
          ELSE /\ ~progress_row_held(t, key)
               /\ txn' = [txn EXCEPT ![t].pc = "save_progress", ![t].day = Today,
                                     ![t].l_progress = [NoProgress EXCEPT !.exists = TRUE],
                                     ![t].w_progress = [NoProgress EXCEPT !.exists = TRUE]]
    /\ UNCHANGED <<now, store, req, resp>>

(* The counter of the branch taken, then progress.save() *)
SaveProgress(t) ==
    /\ txn[t].pc = "save_progress"
    /\ ~progress_row_held(t, ProgressKeyOf(t))
    /\ LET row == bump_progress(txn[t].l_progress, txn[t].next_attempt = 1)
       IN txn' = [txn EXCEPT ![t].pc = "get_memory", ![t].l_progress = row,
                             ![t].w_progress = row]
    /\ UNCHANGED <<now, store, req, resp>>

memory_row_held(t) ==
    \E u \in Others(t) : Open(u) /\ txn[u].w_memory.exists /\ PairOf(u) = PairOf(t)

(* FSRSMemory.objects.filter(puzzle_id=puzzle, player_username=player).first() *)
GetMemory(t) ==
    /\ txn[t].pc = "get_memory"
    /\ IF memory[PairOf(t)].exists
       THEN txn' = [txn EXCEPT ![t].pc = "update_memory",
                               ![t].r_memory = memory[PairOf(t)],
                               ![t].l_memory = memory[PairOf(t)]]
       ELSE txn' = [txn EXCEPT ![t].pc = "create_memory", ![t].r_memory = NoMemory]
    /\ UNCHANGED <<now, store, req, resp>>

(* unique_together = ('player_username', 'puzzle_id') *)
memory_key(t) == unique_index(memory_row_held(t), memory[PairOf(t)].exists)

(* No row was found: FSRSMemory(difficulty=2.0, stability=0.5, ...).save(). When *)
(* the key exists the IntegrityError is caught, the save of the fallback row     *)
(* raises in turn, and that exception reaches the outer except                   *)
CreateMemory(t) ==
    /\ txn[t].pc = "create_memory"
    /\ memory_key(t) # "held"
    /\ IF memory_key(t) = "exists"
       THEN txn' = [txn EXCEPT ![t] = RolledBack(@)]
       ELSE txn' = [txn EXCEPT ![t].pc = "update_memory",
                               ![t].l_memory = DefaultMemory,
                               ![t].w_memory = DefaultMemory]
    /\ UNCHANGED <<now, store, req, resp>>

(* FSRSMemoryService.update_memory(memory, rating, solved, tries_count, hint_used) *)
UpdateMemory(t) ==
    /\ txn[t].pc = "update_memory"
    /\ IF update_memory_raises(txn[t].l_memory)
       THEN txn' = [txn EXCEPT ![t].pc = "commit", ![t].at = now]
       ELSE /\ ~memory_row_held(t)
            /\ LET row == update_memory(txn[t].l_memory, now, txn[t].rating,
                                        txn[t].tries_count, txn[t].hint_used)
               IN txn' = [txn EXCEPT ![t].pc = "commit", ![t].at = now,
                                     ![t].l_memory = row, ![t].w_memory = row]
    /\ UNCHANGED <<now, store, req, resp>>

(* The 201 response is returned and the transaction commits *)
Commit(t) ==
    /\ txn[t].pc = "commit"
    /\ attempts' = [attempts EXCEPT ![PairOf(t)] = Max(@, txn[t].next_attempt)]
    /\ progress' = [progress EXCEPT ![ProgressKeyOf(t)] = txn[t].w_progress]
    /\ memory' = [memory EXCEPT ![PairOf(t)] =
                      IF txn[t].w_memory.exists THEN txn[t].w_memory ELSE @]
    /\ txn' = [txn EXCEPT ![t].pc = "done", ![t].status = 201]
    /\ UNCHANGED <<now, req, resp>>

(* The calls start 0.4 days before midnight; today's progress row of p1 is *)
(* absent, or present with both counters 0 (DailyPuzzlesView created it)  *)
InitTxn ==
    /\ now = 600
    /\ \E m \in {NoMemory, ReviewedMemory(DefaultDifficulty, 3000)} :
          /\ memory = [pz \in Pairs |-> IF pz = ThePair THEN m ELSE NoMemory]
          /\ attempts = [pz \in Pairs |-> IF pz = ThePair /\ m.exists THEN 1 ELSE 0]
    /\ \E row \in {NoProgress, [NoProgress EXCEPT !.exists = TRUE]} :
          progress = [pd \in Players \X Days |->
                         IF pd = <<"p1", 0>> THEN row ELSE NoProgress]
    /\ req = NoRequest
    /\ resp = NoResponse
    /\ txn = [t \in Txns |-> IdleTxn]

NextTxn ==
    \/ Tick
    \/ \E t \in Txns, p \in TxnPlayers, z \in Puzzles, o \in TxnOutcomes : Begin(t, p, z, o)
    \/ \E t \in Txns : ReadMaxAttempt(t)
    \/ \E t \in Txns : SaveAttempt(t)
    \/ \E t \in Txns : GetProgress(t)
    \/ \E t \in Txns : SaveProgress(t)
    \/ \E t \in Txns : GetMemory(t)
    \/ \E t \in Txns : CreateMemory(t)
    \/ \E t \in Txns : UpdateMemory(t)
    \/ \E t \in Txns : Commit(t)

SpecTxn == InitTxn /\ [][NextTxn]_vars

----------------------------------------------------------------------------
(* FSRSMemory.update_memory, the method of the model class (models.py) *)

(* Mutant: a rating outside 1..4 leaves the stability unmultiplied *)
FSRSMemory_stability_multipliers_NoDefault(rating) ==
    CASE rating = 1 -> 200
      [] rating = 2 -> 1100
      [] rating = 3 -> 1500
      [] rating = 4 -> 2000
      [] OTHER -> 1000

(* stability_multipliers.get(rating, 1.5) of the method *)
FSRSMemory_stability_multipliers(rating) ==
    CASE rating = 1 -> 200
      [] rating = 2 -> 1100
      [] rating = 3 -> 1500
      [] rating = 4 -> 2000
      [] OTHER -> 1500

(* difficulty_adjustments.get(rating, 0) of the method *)
FSRSMemory_difficulty_adjustments(rating) ==
    CASE rating = 1 -> 10
      [] rating = 2 -> 5
      [] rating = 3 -> 0 - 5
      [] rating = 4 -> 0 - 10
      [] OTHER -> 0

(* initial_stability.get(rating, 1.0) of the method *)
FSRSMemory_initial_stability(rating) ==
    CASE rating = 1 -> 500
      [] rating = 2 -> 1200
      [] rating = 3 -> 3000
      [] rating = 4 -> 7000
      [] OTHER -> 1000

(* self.calculate_retrievability() raises ZeroDivisionError *)
FSRSMemory_calculate_retrievability_raises(m) ==
    m.last_review_date # NoDate /\ m.stability = 0

(* self.calculate_next_interval() with its default desired_retention=0.9 *)
FSRSMemory_calculate_next_interval(stability) ==
    (stability * neg_log(900)) \div 10000

(* The row that the method saves *)
FSRSMemory_update_memory(m, t, rating, tries_count, hint_used) ==
    LET first == m.last_review_date = NoDate
        elapsed_days == IF first THEN 0 ELSE t - m.last_review_date
        s0 == IF first THEN FSRSMemory_initial_stability(rating) ELSE m.stability
        d1 == m.difficulty + FSRSMemory_difficulty_adjustments(rating)
        d2 == IF tries_count > 0
              THEN d1 + 10 * (IF tries_count < 3 THEN tries_count ELSE 3)
              ELSE d1
        d3 == IF hint_used THEN d2 + 20 ELSE d2
        d4 == Max(100, Min(300, d3))
        ratio == (elapsed_days * 1000) \div Max(s0, 100)
        spacing == IF ratio >= 4000 THEN 2000 ELSE Min(2000, ISqrt(ratio * 1000))
        s1 == IF first THEN s0
              ELSE IF rating = 1
                   THEN (s0 * FSRSMemory_stability_multipliers(1)) \div 1000
                   ELSE (s0 * ((FSRSMemory_stability_multipliers(rating) * spacing)
                                  \div 1000)) \div 1000
    IN [exists |-> TRUE, difficulty |-> d4, stability |-> s1,
        last_review_date |-> t,
        next_review_date |-> t + FSRSMemory_calculate_next_interval(s1)]

(* memory.update_memory(rating, solved, tries_count, hint_used) on the object *)
(* of a pair: its row, or a new FSRSMemory with the field defaults; the       *)
(* answer carries the saved state, or status 500 for a raised exception      *)
MemoryUpdate(p, z, o) ==
    LET pz == <<p, z>>
        m0 == IF memory[pz].exists THEN memory[pz] ELSE DefaultMemory
        m1 == FSRSMemory_update_memory(m0, now, o.rating, o.tries_count, o.hint_used)
    IN /\ o.rating # NoRating
       /\ req' = Request("update_memory", p, z, o.tries_count, o.hint_used, o.solved,
                         o.rating)
       /\ UNCHANGED <<now, attempts, progress, txn>>
       /\ IF FSRSMemory_calculate_retrievability_raises(m0)
          THEN /\ resp' = ErrorResponse(500)
               /\ UNCHANGED memory
          ELSE /\ memory' = [memory EXCEPT ![pz] = m1]
               /\ resp' = [NoResponse EXCEPT !.status = 200, !.rating = o.rating,
                               !.difficulty = m1.difficulty, !.stability = m1.stability,
                               !.next_review_date = m1.next_review_date]

MemoryUpdateOnce ==
    /\ req.view = "none"
    /\ \E o \in AllOutcomes : MemoryUpdate(ThePair[1], ThePair[2], o)

(* One update of one row, by the method or by the service *)
SpecEquivalence == InitUpdate /\ [][ReviewOnce \/ MemoryUpdateOnce]_vars

----------------------------------------------------------------------------
(* Claims *)

IsReview == req.view = "fsrs_attempt" /\ resp.status = 201
ReviewedPair == <<req.player, req.puzzle>>

(* C1: after any sequence of reviews from the default state, the stability *)
(* of every memory row is strictly greater than 0, also when two reviews   *)
(* of a pair carry the same timestamp (elapsed time 0).                    *)
C1_StabilityPositive ==
    \A pz \in Pairs : memory[pz].exists => memory[pz].stability > 0

(* C2: the difficulty of every memory row lies in [1.0, 3.0], whatever the *)
(* qualities, tries counts and hint flags of the reviews were.             *)
C2_DifficultyInRange ==
    \A pz \in Pairs :
        memory[pz].exists => /\ memory[pz].difficulty >= 100
                             /\ memory[pz].difficulty <= 300

(* A lapse with three tries and a hint on a row of difficulty 2.95 or 3.0: *)
(* the sum is above 3.0 and the row holds 3.0                              *)
C2_Witness ==
    /\ IsReview
    /\ req.tries_count = 3 /\ req.hint_used /\ resp.rating = 1
    /\ attempts[ThePair] = 2
    /\ memory[ThePair].difficulty = 300

(* The row a finished call wrote, computed from the row it read *)
Written(t) ==
    memory_after_post(IF txn[t].r_memory.exists THEN txn[t].r_memory ELSE DefaultMemory,
                      txn[t].at, txn[t].rating, txn[t].tries_count, txn[t].hint_used)

AllDone == \A t \in Txns : txn[t].pc = "done"
Accepted(pz) == {t \in Txns : txn[t].status = 201 /\ PairOf(t) = pz}

(* Some order of the accepted calls in which each one read the row the one *)
(* before it wrote, and the table holds the row the last one wrote         *)
AppliedInSomeOrder(pz) ==
    \E b \in Accepted(pz) :
        /\ memory[pz] = Written(b)
        /\ \A a \in Accepted(pz) \ {b} :
              txn[b].r_memory = Written(a) /\ txn[b].next_attempt = txn[a].next_attempt + 1

C4_AllOrNothing ==
    [][ \/ attempts' # attempts /\ progress' # progress /\ memory' # memory
        \/ attempts' = attempts /\ progress' = progress /\ memory' = memory ]_vars

InvalidOutcome(o) ==
    \/ o.tries_count < 0
    \/ o.rating # NoRating /\ o.rating \notin 1 .. 4

(* C5: a submission with a negative tries count or an explicit quality      *)
(* outside 1..4 is rejected with an error and leaves the memory rows, the   *)
(* attempt log and the daily counters unchanged.                            *)
C5_InvalidOutcomeRejected ==
    [][ \A p \in Players, z \in Puzzles, o \in Outcomes :
            Submit(p, z, o) /\ InvalidOutcome(o)
                => resp'.status >= 400 /\ UNCHANGED store ]_vars

(* C6: the derived quality is 1 if not solved; else 2 if tries > 2 or a hint *)
(* was used; else 3 if tries > 0; else 4 - for every (solved, tries, hint).  *)
C6_DerivedRating ==
    req.view = "fsrs_attempt" /\ req.rating = NoRating /\ req.tries_count >= 0
        => /\ resp.status = 201
           /\ resp.rating \in 1 .. 4
           /\ ~req.solved => resp.rating = 1
           /\ req.solved /\ (req.tries_count >= 3 \/ req.hint_used) => resp.rating = 2
           /\ req.solved /\ req.tries_count \in 1 .. 2 /\ ~req.hint_used => resp.rating = 3
           /\ req.solved /\ req.tries_count = 0 /\ ~req.hint_used => resp.rating = 4

(* An unsolved attempt with a hint and three tries is rated 1 *)
C6_Witness ==
    /\ IsReview
    /\ req.rating = NoRating /\ ~req.solved /\ req.hint_used /\ req.tries_count = 3
    /\ resp.rating = 1

(* C7: the first review of a pair that has no memory row succeeds, and the  *)
(* row it leaves has stability 0.5, 1.2, 3.0, 7.0 for quality 1..4 (not the *)
(* default 0.5, no spacing multiplier) and both timestamps; with quality 3, *)
(* no tries and no hint it has stability 3.0 and difficulty 1.95.           *)
C7_FirstReview ==
    req.view = "fsrs_attempt" /\ req.tries_count >= 0 /\ attempts[ReviewedPair] = 1
        => LET m == memory[ReviewedPair]
           IN /\ resp.status = 201
              /\ m.exists
              /\ m.last_review_date = now
              /\ resp.rating = 1 => m.stability = 500
              /\ resp.rating = 2 => m.stability = 1200
              /\ resp.rating = 3 => m.stability = 3000
              /\ resp.rating = 4 => m.stability = 7000
              /\ resp.rating = 3 /\ req.tries_count = 0 /\ ~req.hint_used
                     => m.difficulty = 195

C7_Witness ==
    /\ IsReview
    /\ attempts[ThePair] = 1
    /\ resp.rating = 3 /\ req.tries_count = 0 /\ ~req.hint_used
    /\ memory[ThePair].stability = 3000
    /\ memory[ThePair].difficulty = 195
    /\ now > 0

(* C8: a review of quality 1 of a row that was reviewed before, of stability *)
(* S, leaves stability S * 0.2, whatever the time since the last review.     *)
C8_LapseStability ==
    [][ \A pz \in Pairs :
            /\ memory[pz].exists /\ memory[pz].last_review_date # NoDate
            /\ req'.view = "fsrs_attempt" /\ resp'.status = 201 /\ resp'.rating = 1
            /\ attempts'[pz] = attempts[pz] + 1
            => memory'[pz].stability = memory[pz].stability \div 5 ]_vars

(* A lapse 0.4 days after the last review takes stability 3.0 to 0.6 *)
C8_Witness ==
    /\ IsReview
    /\ resp.rating = 1
    /\ attempts[ThePair] = 2
    /\ memory[ThePair].stability = 600
    /\ memory[ThePair].last_review_date = 400

DueSet(p, t) ==
    {z \in Puzzles : /\ memory[<<p, z>>].exists
                     /\ memory[<<p, z>>].next_review_date # NoDate
                     /\ memory[<<p, z>>].next_review_date <= t}

(* C9: the due list of a learner at time now holds exactly that learner's *)
(* memory rows whose next_review_date is present and <= now, each once.   *)
C9_DueFilter ==
    [][ \A p \in Players :
            DuePuzzles(p) /\ resp'.status = 200
                => /\ {resp'.due_puzzles[i].puzzle_id : i \in DOMAIN resp'.due_puzzles}
                          = DueSet(p, now)
                   /\ Len(resp'.due_puzzles) = Cardinality(DueSet(p, now)) ]_vars

(* A due list of one item, while the learner has another row that is not due *)
(* yet and the other learner has a row that is due                           *)
C9_Witness ==
    /\ req.view = "due_puzzles" /\ resp.status = 200 /\ req.player = "p1"
    /\ Len(resp.due_puzzles) = 1
    /\ \E z \in Puzzles : /\ memory[<<"p1", z>>].exists
                          /\ memory[<<"p1", z>>].next_review_date > now
    /\ DueSet("p2", now) # {}

(* C10: the due list is in ascending order of the retrievability that each *)
(* item has at the time of the query, given its stability and the time     *)
(* since its last review.                                                  *)
C10_DueOrder ==
    [][ \A p \in Players :
            DuePuzzles(p) /\ resp'.status = 200
                => \A i, j \in DOMAIN resp'.due_puzzles :
                       i < j =>
                         memory_retrievability(
                             memory[<<p, resp'.due_puzzles[i].puzzle_id>>], now)
                         <= memory_retrievability(
                             memory[<<p, resp'.due_puzzles[j].puzzle_id>>], now) ]_vars

(* Two due items: the first has the lower retrievability and the later *)
(* next_review_date                                                    *)
C10_Witness ==
    /\ req.view = "due_puzzles" /\ resp.status = 200
    /\ Len(resp.due_puzzles) = 2
    /\ resp.due_puzzles[1].retrievability < resp.due_puzzles[2].retrievability
    /\ memory[<<req.player, resp.due_puzzles[1].puzzle_id>>].next_review_date
         > memory[<<req.player, resp.due_puzzles[2].puzzle_id>>].next_review_date
    /\ memory[<<req.player, resp.due_puzzles[2].puzzle_id>>].next_review_date <= now

NeverAttempted(p) ==
    {z \in Puzzles : puzzle_player_username(z) = p /\ attempts[<<p, z>>] = 0}

DoneToday(p) == progress[<<p, Today>>].new_puzzles_seen + progress[<<p, Today>>].reviews_done

(* The reviews of a mix: the ids of its entries that are not new *)
MixReviews(puzzles) == {puzzles[i].id : i \in {j \in DOMAIN puzzles : ~puzzles[j].is_new}}

(* A step of DailyPuzzlesView.get for a known player; its response echoes the *)
(* limits of the request                                                      *)
DailyStep == req'.view = "daily_puzzles" /\ req'.player \in Players /\ now' = now

(* C11: the due reviews of the daily mix are the most urgent ones: whenever *)
(* the mix leaves out a due item, every due item it holds has a current     *)
(* retrievability <= that of the item left out.                             *)
C11_MixMostUrgent ==
    [][ DailyStep /\ resp'.status = 200
            /\ resp'.daily.puzzles_count <= resp'.daily.per_page
            => LET p == req'.player IN
                   \A a \in MixReviews(resp'.daily.puzzles),
                      b \in DueSet(p, now) \ MixReviews(resp'.daily.puzzles) :
                        memory[<<p, a>>].stability > 0 /\ memory[<<p, b>>].stability > 0
                            => memory_retrievability(memory[<<p, a>>], now)
                                 <= memory_retrievability(memory[<<p, b>>], now) ]_vars

(* C12: when new_puzzles_seen + reviews_done of today is >= total_limit, the *)
(* daily mix is the empty list, with a 200 response, whatever the numbers of *)
(* due items and of never-attempted items are.                               *)
C12_QuotaExhaustedEmpty ==
    [][ DailyStep /\ DoneToday(req'.player) >= resp'.daily.total_limit
                => /\ resp'.status = 200
                   /\ resp'.daily.puzzles = <<>> ]_vars

(* An empty mix for a learner who has done two of two today, one of them a *)
(* review, and has a due item and a never-attempted one                    *)
C12_Witness ==
    /\ req.view = "daily_puzzles" /\ resp.status = 200
    /\ resp.daily.total_limit = 2 /\ DoneToday(req.player) = 2
    /\ progress[<<req.player, Today>>].reviews_done = 1
    /\ resp.daily.puzzles = <<>>
    /\ DueSet(req.player, now) # {}
    /\ NeverAttempted(req.player) # {}

(* C13: the mix holds min(due_count, total_remaining) due items and then   *)
(* min(new_available, new_remaining, total_remaining - reviews_to_use)     *)
(* never-attempted items, with new_remaining = max(0, new_limit - new seen *)
(* today) and total_remaining = max(0, total_limit - done today).          *)
C13_MixComposition ==
    [][ DailyStep
                => LET p == req'.player
                       nl == resp'.daily.new_limit
                       tl == resp'.daily.total_limit
                       pp == resp'.daily.per_page
                       mix == resp'.daily.puzzles
                       nr == Max(0, nl - progress[<<p, Today>>].new_puzzles_seen)
                       tr == Max(0, tl - DoneToday(p))
                       r == Min(Cardinality(DueSet(p, now)), tr)
                       n == Min(Min(Cardinality(NeverAttempted(p)), nr), tr - r)
                   IN /\ resp'.status = 200
                      /\ resp'.daily.puzzles_count = r + n
                      /\ r + n <= tr /\ n <= nr
                      /\ r + n <= pp =>
                           /\ Len(mix) = r + n
                           /\ \A i \in 1 .. r :
                                 mix[i].id \in DueSet(p, now) /\ ~mix[i].is_new
                           /\ \A i \in r + 1 .. r + n :
                                 mix[i].id \in NeverAttempted(p) /\ mix[i].is_new
                           /\ \A i, j \in 1 .. r + n : i # j => mix[i].id # mix[j].id ]_vars

(* A mix of one due item and one new item, with one new slot left of two *)
(* and two slots left in total                                           *)
C13_Witness ==
    /\ req.view = "daily_puzzles" /\ resp.status = 200
    /\ resp.daily.new_limit = 2 /\ resp.daily.total_limit = 3
    /\ resp.daily.new_puzzles_seen = 1 /\ resp.daily.reviews_done = 0
    /\ resp.daily.puzzles_count = 2 /\ Len(resp.daily.puzzles) = 2
    /\ ~resp.daily.puzzles[1].is_new /\ resp.daily.puzzles[2].is_new

(* A step of FSRSPuzzleAttemptView.post that saved an attempt for which the *)
(* request gave no rating                                                  *)
DerivedReviewStep ==
    /\ req'.view = "fsrs_attempt" /\ req'.rating = NoRating
    /\ attempts' # attempts

(* C14: a review submitted without a rating updates the memory row with the *)
(* rating derived from (solved, tries, hint), and sets next_review_date     *)
(* from the new stability; a new item reviewed with solved, no tries and no *)
(* hint gets rating 4, stability 7.0, difficulty 1.9 and next_review_date   *)
(* = now + 7.0 * -ln(0.9) days (0.737 days).                                *)
C14_DerivedReviewUpdates ==
    [][ DerivedReviewStep
          => LET pz == <<req'.player, req'.puzzle>>
                 r == IF ~req'.solved THEN 1
                      ELSE IF req'.tries_count > 2 \/ req'.hint_used THEN 2
                      ELSE IF req'.tries_count > 0 THEN 3 ELSE 4
                 m == memory'[pz]
             IN /\ resp'.status = 201 /\ resp'.rating = r
                /\ m.exists /\ m.last_review_date = now
                /\ m.next_review_date = now + (m.stability * 1054) \div 10000
                /\ ~memory[pz].exists => m.stability = initial_stability(r)
                /\ ~memory[pz].exists /\ req'.solved /\ req'.tries_count = 0
                       /\ ~req'.hint_used
                     => /\ r = 4 /\ m.stability = 7000 /\ m.difficulty = 190
                        /\ m.next_review_date = now + 737 ]_vars

(* The difficulty that the review of the step would have left, had its *)
(* tries_count been tr, with the same row, rating and hint flag        *)
DifficultyWithTries(tr) ==
    LET pz == <<req'.player, req'.puzzle>>
        m0 == IF memory[pz].exists THEN memory[pz] ELSE DefaultMemory
    IN memory_after_post(m0, now, resp'.rating, tr, req'.hint_used).difficulty

(* C15: for a fixed memory row, rating and hint flag, the difficulty after *)
(* the update never decreases as tries_count increases, and every          *)
(* tries_count >= 3 gives the difficulty that tries_count = 3 gives.       *)
C15_TriesMonotoneCapped ==
    [][ req'.view = "fsrs_attempt" /\ resp'.status = 201 /\ attempts' # attempts
          => LET d == memory'[<<req'.player, req'.puzzle>>].difficulty
             IN /\ \A tr \in TriesInputs :
                      /\ 0 <= tr /\ tr <= req'.tries_count => DifficultyWithTries(tr) <= d
                      /\ tr >= req'.tries_count => DifficultyWithTries(tr) >= d
                /\ req'.tries_count >= 3 => d = DifficultyWithTries(3) ]_vars

(* A first review rated 3 with four tries and no hint: 2.0 - 0.05 + 0.3, *)
(* while one try would have given 2.05                                   *)
C15_Witness ==
    /\ IsReview /\ req.rating = 3 /\ req.tries_count = 4 /\ ~req.hint_used
    /\ attempts[ThePair] = 1
    /\ memory[ThePair].difficulty = 225
    /\ new_difficulty(DefaultDifficulty, 3, 1, FALSE) = 205

MemoryRows(pz) ==
    LET inserted == {t \in Accepted(pz) : ~txn[t].r_memory.exists}
    IN IF inserted = {} THEN (IF memory[pz].exists THEN 1 ELSE 0)
       ELSE Cardinality(inserted)

(* C17: under any interleaving of review submissions, two concurrent first *)
(* reviews of the same pair included, there is at most one memory row per  *)
(* (learner, item) pair.                                                   *)
C17_OneMemoryPerPair == \A pz \in Pairs : MemoryRows(pz) <= 1

(* Two overlapping first reviews of the same pair have ended: both had read *)
(* that there was no attempt yet, one was accepted and inserted the row     *)
C17_Witness ==
    /\ AllDone /\ PairOf("t1") = PairOf("t2")
    /\ \A t \in Txns : txn[t].next_attempt = 1
    /\ Cardinality(Accepted(PairOf("t1"))) = 1
    /\ MemoryRows(PairOf("t1")) = 1
    /\ memory[PairOf("t1")].last_review_date # NoDate

(* C20: concurrent submissions of a learner on one day lose no increment of *)
(* the quota: when the calls have ended, new_puzzles_seen + reviews_done of *)
(* each (learner, day) is the number of accepted submissions of that day.   *)
C20_NoLostIncrement ==
    AllDone =>
        \A key \in TxnPlayers \X Days :
            progress[key].new_puzzles_seen + progress[key].reviews_done
                = Cardinality({t \in Txns : txn[t].status = 201 /\ ProgressKeyOf(t) = key})

(* The object whose retrievability the step computed, and elapsed_days / *)
(* stability in 1/1000                                                  *)
RetrievabilityStep == req'.view = "retrievability"
Subject == IF memory[ThePair].exists THEN memory[ThePair] ELSE DefaultMemory
Ratio == ((now - Subject.last_review_date) * 1000) \div Subject.stability

(* C18 as stated: for every stability > 0 and elapsed_days >= 0 the     *)
(* retrievability lies in (0, 1], it is exactly 1.0 at elapsed_days = 0, *)
(* and it is 1.0 for an object without last_review_date.                 *)
C18_RetrievabilityPositive ==
    [][ RetrievabilityStep /\ Subject.stability > 0
          => /\ resp'.status = 200
             /\ resp'.retrievability > 0 /\ resp'.retrievability <= 1000
             /\ Subject.last_review_date = now => resp'.retrievability = 1000
             /\ Subject.last_review_date = NoDate => resp'.retrievability = 1000 ]_vars

(* C18 amended: for every stability > 0 and elapsed_days >= 0 the result *)
(* lies in [0, 1]; it is > 0 when elapsed_days / stability <= 745 and    *)
(* 0.0 when it is >= 746; it is exactly 1.0 at elapsed_days = 0 and for  *)
(* an object without last_review_date.                                   *)
C18_RetrievabilityInUnit ==
    [][ RetrievabilityStep /\ Subject.stability > 0
          => /\ resp'.status = 200
             /\ resp'.retrievability >= 0 /\ resp'.retrievability <= 1000
             /\ Subject.last_review_date = now => resp'.retrievability = 1000
             /\ Subject.last_review_date = NoDate => resp'.retrievability = 1000
             /\ Subject.last_review_date # NoDate =>
                    /\ Ratio <= 745000 => resp'.retrievability > 0
                    /\ Ratio >= 746000 => resp'.retrievability = 0 ]_vars

(* Stability 0.004 and 4 days since the last review: the ratio is 1000 and *)
(* the retrievability 0.0                                                  *)
C18_Witness ==
    /\ req.view = "retrievability" /\ resp.status = 200
    /\ memory[ThePair].exists /\ memory[ThePair].stability = 4
    /\ memory[ThePair].last_review_date = 0 /\ now = 4000
    /\ resp.retrievability = 0

(* C19: the next interval inverts the retrievability: for a stability S   *)
(* and a target retention r in (0, 1), the retrievability of S after      *)
(* next_interval(S, r) is r - here for S >= 0.1 days, where the interval  *)
(* is at least ten clock ticks, and to within 0.005.                      *)
C19_IntervalInvertsRetrievability ==
    [][ req'.view = "next_interval" /\ Subject.stability >= 100
          => /\ resp'.status = 200
             /\ resp'.retrievability - req'.desired_retention <= 5
             /\ req'.desired_retention - resp'.retrievability <= 5 ]_vars

(* Stability 3.0 and retention 0.5: the interval is 2.079 days, after which *)
(* the retrievability is 0.5                                                *)
C19_Witness ==
    /\ req.view = "next_interval" /\ req.desired_retention = 500
    /\ Subject.stability = 3000
    /\ resp.next_review_date = now + 2079
    /\ resp.retrievability \in 499 .. 501

(* The stability that a review of the step would have left, had it been *)
(* made at time t, with the same row and outcome                        *)
StabilityAt(t) ==
    LET pz == <<req'.player, req'.puzzle>>
        m0 == IF memory[pz].exists THEN memory[pz] ELSE DefaultMemory
    IN memory_after_post(m0, t, resp'.rating, req'.tries_count, req'.hint_used).stability

(* A review with rating 2, 3 or 4 of a row that was reviewed before *)
GrowthStep ==
    /\ req'.view = "fsrs_attempt" /\ resp'.status = 201 /\ attempts' # attempts
    /\ memory[<<req'.player, req'.puzzle>>].exists
    /\ resp'.rating \in {2, 3, 4}

(* C21: a non-first review with rating q in {2,3,4} of a row with stability *)
(* S leaves stability S * multiplier[q] * min(2.0, sqrt(elapsed_days /      *)
(* max(S, 0.1))) with multipliers 1.1, 1.5, 2.0; that is never more than    *)
(* 2 * multiplier[q] * S, and for a fixed S and q it never decreases as     *)
(* elapsed_days increases.                                                  *)
C21_SpacedGrowth ==
    [][ GrowthStep
          => LET pz == <<req'.player, req'.puzzle>>
                 S == memory[pz].stability
                 elapsed_days == now - memory[pz].last_review_date
                 mult == CASE resp'.rating = 2 -> 1100
                           [] resp'.rating = 3 -> 1500
                           [] resp'.rating = 4 -> 2000
                 ratio == (elapsed_days * 1000) \div (IF S > 100 THEN S ELSE 100)
                 spacing == IF ratio >= 4000 THEN 2000 ELSE ISqrt(ratio * 1000)
             IN /\ memory'[pz].stability = (S * ((mult * spacing) \div 1000)) \div 1000
                /\ memory'[pz].stability <= (2 * mult * S) \div 1000
                /\ \A t \in NowInputs :
                      t >= now => StabilityAt(t) >= memory'[pz].stability ]_vars

(* A row of stability 0.1 reviewed with rating 3 after 4 days: the ratio is *)
(* 40, the spacing multiplier is capped at 2.0 and the stability is 0.3     *)
C21_Witness ==
    /\ IsReview /\ resp.rating = 3 /\ now = 4000
    /\ attempts[ThePair] = 2
    /\ memory[ThePair].stability = 300

(* A submission whose update_memory call returns *)
UpdateStep ==
    /\ req'.view = "fsrs_attempt" /\ resp'.status = 201 /\ attempts' # attempts
    /\ LET m == memory[<<req'.player, req'.puzzle>>]
       IN ~(m.exists /\ update_memory_raises(m))

(* C22: after every successful update at time now the row has both          *)
(* timestamps, last_review_date = now and next_review_date = now +          *)
(* (-stability' * ln(0.9)) days for the stability' after the update; no row *)
(* that was ever updated lacks a timestamp.                                 *)
C22_TimestampsAfterUpdate ==
    [][ /\ UpdateStep
           => LET m == memory'[<<req'.player, req'.puzzle>>]
              IN /\ m.exists
                 /\ m.last_review_date = now
                 /\ m.next_review_date = now + (m.stability * 1054) \div 10000
        /\ \A pz \in Pairs :
              memory'[pz].last_review_date = NoDate \/ memory'[pz].next_review_date = NoDate
                 => ~memory'[pz].exists /\ attempts'[pz] = 0 ]_vars

(* A lapse 0.4 days after a first lapse: the stability falls from 0.5 to 0.1 *)
(* and the next review is 0.010 days away, not the 0.052 days of the         *)
(* stability before the update                                               *)
C22_Witness ==
    /\ IsReview /\ resp.rating = 1 /\ now = 400
    /\ attempts[ReviewedPair] = 2
    /\ memory[ReviewedPair].stability = 100
    /\ memory[ReviewedPair].last_review_date = 400
    /\ memory[ReviewedPair].next_review_date = 410

(* C23: memory rows are changed only by the update of a review submission: *)
(* time passing, the due-item query, the daily mix, the reset of the daily  *)
(* progress and the creation of an attempt leave every row unchanged and    *)
(* delete none, and the update of one (player, puzzle) pair leaves the rows *)
(* of every other pair unchanged.                                           *)
C23_MemoryFrame ==
    [][ \A pz \in Pairs :
           memory'[pz] # memory[pz]
              => /\ now' = now
                 /\ req'.view = "fsrs_attempt"
                 /\ pz = <<req'.player, req'.puzzle>>
                 /\ memory'[pz].exists ]_vars

(* The daily progress of a learner with memory rows of two puzzles has just *)
(* been reset: the rows and the attempts are still there                    *)
C23_Witness ==
    /\ req.view = "reset_progress" /\ resp.status = 200
    /\ progress[<<"p1", Today>>] = NoProgress
    /\ memory[<<"p1", "z1">>].exists /\ memory[<<"p1", "z2">>].exists
    /\ memory[<<"p1", "z1">>].last_review_date # memory[<<"p1", "z2">>].last_review_date

(* The row that the update of the step would have saved, had the row before *)
(* it had difficulty d, stability st and last review date l                 *)
UpdatedFrom(d, st, l) ==
    LET pz == <<req'.player, req'.puzzle>>
        m0 == IF memory[pz].exists THEN memory[pz] ELSE DefaultMemory
    IN update_memory([m0 EXCEPT !.difficulty = d, !.stability = st,
                                !.last_review_date = l],
                     now, resp'.rating, req'.tries_count, req'.hint_used)

(* C24: the stability and the next review date after an update do not      *)
(* depend on the difficulty before it: rows that differ only in difficulty *)
(* end with the same stability and next_review_date after the same review; *)
(* and the difficulty after an update does not depend on the stability or  *)
(* on the elapsed time.                                                    *)
C24_DifficultyStabilityIndependent ==
    [][ UpdateStep
          => LET pz == <<req'.player, req'.puzzle>>
                 m0 == IF memory[pz].exists THEN memory[pz] ELSE DefaultMemory
                 m == memory'[pz]
             IN /\ \A d \in DifficultyInputs :
                      /\ UpdatedFrom(d, m0.stability, m0.last_review_date).stability
                            = m.stability
                      /\ UpdatedFrom(d, m0.stability, m0.last_review_date).next_review_date
                            = m.next_review_date
                /\ \A st \in StabilityInputs \ {0}, l \in {NoDate, 0, now} :
                      UpdatedFrom(m0.difficulty, st, l).difficulty = m.difficulty ]_vars

(* A row of difficulty 2.95 and stability 0.5 reviewed with rating 3, no   *)
(* tries and no hint after 0.4 days: difficulty 2.9 and stability 0.67, as *)
(* a row of difficulty 1.0 would have got                                  *)
C24_Witness ==
    /\ IsReview /\ req.rating = 3 /\ req.tries_count = 0 /\ ~req.hint_used
    /\ now = 400 /\ attempts[ThePair] = 2
    /\ memory[ThePair].difficulty = 290
    /\ memory[ThePair].stability = 670

(* C25: in every store state that review submissions can reach, the       *)
(* due-item query of a known player completes with a ranked list: it never *)
(* fails, in particular not by dividing by a stability of zero.            *)
C25_DueSelectionCompletes ==
    [][ req'.view = "due_puzzles" /\ now' = now /\ req'.player \in Players
          => resp'.status = 200 ]_vars

(* C26: a non-first review with rating 3 or more, made at or after the     *)
(* row's next_review_date, leaves a stability that is at least the          *)
(* stability before it: a successful review on or after the scheduled time *)
(* never weakens the memory.                                                *)
C26_OnTimeSuccessKeepsStability ==
    [][ /\ GrowthStep /\ resp'.rating >= 3
        /\ now >= memory[<<req'.player, req'.puzzle>>].next_review_date
          => memory'[<<req'.player, req'.puzzle>>].stability
                >= memory[<<req'.player, req'.puzzle>>].stability ]_vars

(* A review submission that is committed *)
CommittedReviewStep ==
    req'.view = "fsrs_attempt" /\ resp'.status = 201 /\ attempts' # attempts

(* C27: after any sequence of attempt creations and review submissions,    *)
(* each committed review submission increments exactly one counter of the *)
(* player's daily progress by exactly 1: new_puzzles_seen exactly when the *)
(* pair had no memory row before the submission (the update takes the      *)
(* first-review branch), reviews_done otherwise.                           *)
C27_CounterMatchesBranch ==
    [][ CommittedReviewStep
          => LET pz == <<req'.player, req'.puzzle>>
                 key == <<req'.player, Today>>
                 new == progress'[key].new_puzzles_seen - progress[key].new_puzzles_seen
                 rev == progress'[key].reviews_done - progress[key].reviews_done
             IN /\ progress'[key].exists
                /\ \A k \in DOMAIN progress : k # key => progress'[k] = progress[k]
                /\ IF memory[pz].exists THEN new = 0 /\ rev = 1
                                        ELSE new = 1 /\ rev = 0 ]_vars

(* C28: every puzzle of a learner is in exactly one of two sets: never    *)
(* attempted by the learner (a candidate new item of the daily mix), or   *)
(* holding a memory row with a next_review_date (a candidate for the due  *)
(* set). No puzzle is in both, and none is in neither.                    *)
C28_NewOrScheduled ==
    \A p \in Players, z \in Puzzles :
        puzzle_player_username(z) = p
           => LET m == memory[<<p, z>>]
              IN (attempts[<<p, z>>] = 0) # (m.exists /\ m.next_review_date # NoDate)

(* C29: after every successful update the next_review_date of the row is  *)
(* strictly later than its last_review_date, so the item is not due at    *)
(* the instant of its own review.                                         *)
C29_NextAfterLast ==
    [][ UpdateStep
          => LET m == memory'[<<req'.player, req'.puzzle>>]
             IN /\ m.next_review_date > m.last_review_date
                /\ ~is_due(m, now) ]_vars

(* C30: FSRSMemory.update_memory and FSRSMemoryService.update_memory are  *)
(* equivalent: for every row and every input, ratings outside 1..4        *)
(* included, each raises exactly when the other does and otherwise saves  *)
(* the row that the other would save and returns the same                 *)
(* next_review_date.                                                      *)
C30_UpdateMemoryEquivalent ==
    [][ LET pz == <<req'.player, req'.puzzle>>
            m0 == IF memory[pz].exists THEN memory[pz] ELSE DefaultMemory
        IN /\ req'.view = "update_memory"
                => /\ (resp'.status = 500) = update_memory_raises(m0)
                   /\ resp'.status # 500
                         => LET m1 == update_memory(m0, now, req'.rating,
                                                    req'.tries_count, req'.hint_used)
                            IN /\ memory'[pz] = m1
                               /\ resp'.next_review_date = m1.next_review_date
           /\ CommittedReviewStep
                => /\ UpdateStep = ~FSRSMemory_calculate_retrievability_raises(m0)
                   /\ UpdateStep
                         => memory'[pz] = FSRSMemory_update_memory(m0, now, resp'.rating,
                                              req'.tries_count, req'.hint_used) ]_vars

(* The method has updated a row of stability 0.5 with rating 5 after 0.4   *)
(* days: the default multiplier 1.5 and the spacing multiplier 0.894 leave *)
(* stability 0.67, and the difficulty 2.0 is not adjusted                  *)
C30_Witness ==
    /\ req.view = "update_memory" /\ resp.status = 200
    /\ req.rating = 5 /\ req.tries_count = 0 /\ ~req.hint_used
    /\ now = 400
    /\ memory[ThePair].last_review_date = 400
    /\ memory[ThePair].stability = 670
    /\ memory[ThePair].difficulty = 200

====
